---- MODULE Spec2Model ----
(***************************************************************************)
(* Model of the modified UTF-7 (IMAP mailbox name) codec of src/lib.rs.    *)
(* Strings are sequences of numbers: a Rust String is the sequence of its  *)
(* UTF-8 bytes, a Unicode text is the sequence of its scalar values.       *)
(***************************************************************************)
EXTENDS Integers, Sequences, FiniteSets, TLC

\* ---------------------------------------------------------------- bounds
MaxLen == 3
MaxEncLen == 6

\* Scalar values the callers of encode_utf7_imap pass: a control character,
\* '&', '-', 'A', DEL, U+00E9, U+EFBB, U+BF00, U+FEFF, U+FFFE, U+1F600.
UChars == {10, 38, 45, 65, 127, 233, 61371, 48896, 65279, 65534, 128512}

\* Characters the callers of decode_utf7_imap pass: '&' '-' 'A' '2' 'k' '@'.
EncChars == {38, 45, 65, 50, 107, 64}

RECURSIVE SeqsUpTo(_, _)
SeqsUpTo(S, n) ==
    IF n = 0 THEN {<<>>}
    ELSE LET shorter == SeqsUpTo(S, n - 1)
         IN  shorter \cup {Append(s, c) : s \in {t \in shorter : Len(t) = n - 1}, c \in S}

UStrings == SeqsUpTo(UChars, MaxLen)
EncStrings == SeqsUpTo(EncChars, MaxEncLen)

\* ------------------------------------------------------- string helpers
Min(S) == CHOOSE x \in S : \A y \in S : x <= y

RECURSIVE Flatten(_)
Flatten(ss) == IF ss = <<>> THEN <<>> ELSE Head(ss) \o Flatten(Tail(ss))

Pow2(k) == CASE k = 0 -> 1 [] k = 1 -> 2 [] k = 2 -> 4 [] k = 3 -> 8
             [] k = 4 -> 16 [] k = 5 -> 32 [] k = 6 -> 64 [] k = 7 -> 128

\* The UTF-8 bytes of one scalar value (the representation of a Rust String).
Utf8Char(c) ==
    IF c < 128 THEN <<c>>
    ELSE IF c < 2048 THEN <<192 + (c \div 64), 128 + (c % 64)>>
    ELSE IF c < 65536
         THEN <<224 + (c \div 4096), 128 + ((c \div 64) % 64), 128 + (c % 64)>>
         ELSE <<240 + (c \div 262144), 128 + ((c \div 4096) % 64),
                128 + ((c \div 64) % 64), 128 + (c % 64)>>

Utf8(cs) == Flatten([i \in 1..Len(cs) |-> Utf8Char(cs[i])])

\* Number of continuation bytes that validly follow the lead byte b[1].
Utf8Need(b0) ==
    IF b0 \in 194..223 THEN 1 ELSE IF b0 \in 224..239 THEN 2
    ELSE IF b0 \in 240..244 THEN 3 ELSE 0

Utf8Follow(b) ==
    LET b0 == b[1]
        lo == IF b0 = 224 THEN 160 ELSE IF b0 = 240 THEN 144 ELSE 128
        hi == IF b0 = 237 THEN 159 ELSE IF b0 = 244 THEN 143 ELSE 191
        ok(k) == k + 1 <= Len(b)
                 /\ b[k + 1] \in (IF k = 1 THEN lo ELSE 128)..(IF k = 1 THEN hi ELSE 191)
    IN  IF ~ok(1) THEN 0 ELSE IF ~ok(2) THEN 1 ELSE IF ~ok(3) THEN 2 ELSE 3

\* Scalar values of a byte string; an ill-formed sequence gives U+FFFD.
RECURSIVE Utf8Decode(_)
Utf8Decode(b) ==
    IF b = <<>> THEN <<>>
    ELSE LET b0 == b[1]
             need == Utf8Need(b0)
             got == IF Utf8Follow(b) < need THEN Utf8Follow(b) ELSE need
             rest == SubSeq(b, got + 2, Len(b))
         IN  IF b0 < 128 THEN <<b0>> \o Utf8Decode(Tail(b))
             ELSE IF need = 0 THEN <<65533>> \o Utf8Decode(Tail(b))
             ELSE IF got < need THEN <<65533>> \o Utf8Decode(rest)
             ELSE IF need = 1
                  THEN <<(b0 - 192) * 64 + (b[2] - 128)>> \o Utf8Decode(rest)
             ELSE IF need = 2
                  THEN <<(b0 - 224) * 4096 + (b[2] - 128) * 64 + (b[3] - 128)>>
                       \o Utf8Decode(rest)
             ELSE <<(b0 - 240) * 262144 + (b[2] - 128) * 4096
                    + (b[3] - 128) * 64 + (b[4] - 128)>> \o Utf8Decode(rest)

\* str::is_char_boundary: the 0-based byte index i starts a character.
is_char_boundary(s, i) == i = 0 \/ i = Len(s) \/ (i < Len(s) /\ s[i + 1] \notin 128..191)

\* --------------------------------------------------------------- encode
Amp == 38
Dash == 45
Pad == 61
Slash == 47
Comma == 44

no_escape(s) == s

\* text.replace('&', "&-")
EscapeAmp(s) == Flatten([i \in 1..Len(s) |-> IF s[i] = Amp THEN <<Amp, Dash>> ELSE <<s[i]>>])

is_ascii_custom(c) == c \in 32..127

\* 0-based index of the first byte that is not / is is_ascii_custom, or -1.
FirstNonAscii(s) ==
    LET I == {i \in 1..Len(s) : ~is_ascii_custom(s[i])}
    IN  IF I = {} THEN -1 ELSE Min(I) - 1

FirstAscii(s) ==
    LET I == {i \in 1..Len(s) : is_ascii_custom(s[i])}
    IN  IF I = {} THEN -1 ELSE Min(I) - 1

get_ascii(s) == IF FirstNonAscii(s) = -1 THEN s ELSE SubSeq(s, 1, FirstNonAscii(s))

get_nonascii(s) == IF FirstAscii(s) = -1 THEN s ELSE SubSeq(s, 1, FirstAscii(s))

remove_ascii(s) ==
    IF FirstNonAscii(s) = -1 THEN <<>> ELSE SubSeq(s, FirstNonAscii(s) + 1, Len(s))

remove_nonascii_stuck(s) == s

remove_nonascii_one(s) == IF s = <<>> THEN <<>> ELSE SubSeq(s, Len(Utf8Char(Head(Utf8Decode(s)))) + 1, Len(s))

remove_nonascii(s) ==
    IF FirstAscii(s) = -1 THEN <<>> ELSE SubSeq(s, FirstAscii(s) + 1, Len(s))

\* The slices &s[0..i] and &s[i..] panic unless i is a character boundary.
slice_ok(s, i) == i = -1 \/ is_char_boundary(s, i)

\* char::encode_utf16 and u16::to_be_bytes
encode_utf16(c) ==
    IF c < 65536 THEN <<c>>
    ELSE <<55296 + ((c - 65536) \div 1024), 56320 + ((c - 65536) % 1024)>>

to_be_bytes(u) == <<u \div 256, u % 256>>

\* The byte buffer `input` built from the run's UTF-16 code units.
Utf16BEBytes(text) ==
    LET cs == Utf8Decode(text)
        units == Flatten([i \in 1..Len(cs) |-> encode_utf16(cs[i])])
    IN  Flatten([i \in 1..Len(units) |-> to_be_bytes(units[i])])

\* The standard base64 alphabet: the character of a 6-bit value.
B64Char(v) ==
    IF v < 26 THEN 65 + v ELSE IF v < 52 THEN 97 + (v - 26)
    ELSE IF v < 62 THEN 48 + (v - 52) ELSE IF v = 62 THEN 43 ELSE Slash

\* base64::encode: standard alphabet, '=' padding.
RECURSIVE base64_encode(_)
base64_encode(b) ==
    IF b = <<>> THEN <<>>
    ELSE LET n == Len(b)
             b1 == b[1]
             b2 == IF n >= 2 THEN b[2] ELSE 0
             b3 == IF n >= 3 THEN b[3] ELSE 0
             c1 == B64Char(b1 \div 4)
             c2 == B64Char(((b1 % 4) * 16) + (b2 \div 16))
             c3 == B64Char(((b2 % 16) * 4) + (b3 \div 64))
             c4 == B64Char(b3 % 64)
         IN  IF n = 1 THEN <<c1, c2, Pad, Pad>>
             ELSE IF n = 2 THEN <<c1, c2, c3, Pad>>
             ELSE <<c1, c2, c3, c4>> \o base64_encode(SubSeq(b, 4, n))

RECURSIVE trim_end_matches(_)
trim_end_matches(s) ==
    IF s # <<>> /\ s[Len(s)] = Pad THEN trim_end_matches(SubSeq(s, 1, Len(s) - 1)) ELSE s

keep_slash(s) == s

replace_slash(s) == [i \in 1..Len(s) |-> IF s[i] = Slash THEN Comma ELSE s[i]]

encode_modified_utf7(text) ==
    <<Amp>> \o replace_slash(trim_end_matches(base64_encode(Utf16BEBytes(text)))) \o <<Dash>>

\* --------------------------------------------------------------- decode
\* The 6-bit value of a standard base64 character, -1 for any other byte.
B64Val(c) ==
    IF c \in 65..90 THEN c - 65 ELSE IF c \in 97..122 THEN (c - 97) + 26
    ELSE IF c \in 48..57 THEN (c - 48) + 52 ELSE IF c = 43 THEN 62
    ELSE IF c = Slash THEN 63 ELSE -1

\* text_mb64.replace(',', "/")
replace_comma(s) == [i \in 1..Len(s) |-> IF s[i] = Comma THEN Slash ELSE s[i]]

\* while (text_b64.len() % 4) != 0 { text_b64 += "=" }
RECURSIVE pad_to_four(_)
pad_to_four(s) == IF Len(s) % 4 = 0 THEN s ELSE pad_to_four(Append(s, Pad))

RECURSIVE B64Bytes(_)
B64Bytes(d) ==
    IF Len(d) < 2 THEN <<>>
    ELSE LET n == Len(d)
             v1 == B64Val(d[1])
             v2 == B64Val(d[2])
             v3 == IF n >= 3 THEN B64Val(d[3]) ELSE 0
             v4 == IF n >= 4 THEN B64Val(d[4]) ELSE 0
             y1 == (v1 * 4) + (v2 \div 16)
             y2 == ((v2 % 16) * 16) + (v3 \div 4)
             y3 == ((v3 % 4) * 64) + v4
         IN  IF n = 2 THEN <<y1>>
             ELSE IF n = 3 THEN <<y1, y2>>
             ELSE <<y1, y2, y3>> \o B64Bytes(SubSeq(d, 5, n))

\* base64::decode, standard alphabet: Err on a byte outside the alphabet, on
\* misplaced or excess padding, on a data length of 1 mod 4 and on non-zero
\* trailing bits in the last symbol.
base64_decode(s) ==
    LET data == trim_end_matches(s)
        d == Len(data)
        p == Len(s) - d
        last == IF d = 0 THEN 0 ELSE B64Val(data[d])
        bad == \/ \E i \in 1..d : B64Val(data[i]) = -1
               \/ p > 2
               \/ Len(s) % 4 # 0
               \/ d % 4 = 1
               \/ (d % 4 = 2 /\ last % 16 # 0)
               \/ (d % 4 = 3 /\ last % 4 # 0)
    IN  IF bad THEN [ok |-> FALSE, bytes |-> <<>>]
        ELSE [ok |-> TRUE, bytes |-> B64Bytes(data)]

\* Encoding::for_bom: the encoding a leading byte order mark selects and
\* the mark's length.
for_bom(bytes) ==
    IF Len(bytes) >= 3 /\ SubSeq(bytes, 1, 3) = <<239, 187, 191>>
    THEN [enc |-> "UTF-8", len |-> 3]
    ELSE IF Len(bytes) >= 2 /\ SubSeq(bytes, 1, 2) = <<255, 254>>
    THEN [enc |-> "UTF-16LE", len |-> 2]
    ELSE IF Len(bytes) >= 2 /\ SubSeq(bytes, 1, 2) = <<254, 255>>
    THEN [enc |-> "UTF-16BE", len |-> 2]
    ELSE [enc |-> "UTF-16BE", len |-> 0]

Utf16Units(bytes, enc) ==
    [i \in 1..(Len(bytes) \div 2) |->
        IF enc = "UTF-16BE" THEN (bytes[(2 * i) - 1] * 256) + bytes[2 * i]
        ELSE (bytes[2 * i] * 256) + bytes[(2 * i) - 1]]

\* The UTF-16 decoder: an unpaired surrogate and a trailing odd byte each
\* give U+FFFD (one U+FFFD when the input ends in both).
RECURSIVE Utf16Scalars(_, _)
Utf16Scalars(u, odd) ==
    IF u = <<>> THEN (IF odd THEN <<65533>> ELSE <<>>)
    ELSE IF u[1] \in 55296..56319
         THEN IF Len(u) = 1 THEN <<65533>>
              ELSE IF u[2] \in 56320..57343
                   THEN <<65536 + ((u[1] - 55296) * 1024) + (u[2] - 56320)>>
                        \o Utf16Scalars(SubSeq(u, 3, Len(u)), odd)
                   ELSE <<65533>> \o Utf16Scalars(Tail(u), odd)
    ELSE IF u[1] \in 56320..57343 THEN <<65533>> \o Utf16Scalars(Tail(u), odd)
    ELSE <<u[1]>> \o Utf16Scalars(Tail(u), odd)

decode_without_bom_handling(bytes, enc) ==
    IF enc = "UTF-8" THEN Utf8Decode(bytes)
    ELSE Utf16Scalars(Utf16Units(bytes, enc), Len(bytes) % 2 = 1)

\* UTF_16BE.decode(&text_u16).0, as the String it is copied into.
UTF_16BE_decode(bytes) ==
    LET bom == for_bom(bytes)
    IN  Utf8(decode_without_bom_handling(SubSeq(bytes, bom.len + 1, Len(bytes)), bom.enc))

\* The String returned, or ok = FALSE when unwrap() panics.
decode_utf7_part(text) ==
    IF text = <<Amp, Dash>> THEN [ok |-> TRUE, str |-> <<Amp>>]
    ELSE LET text_mb64 == SubSeq(text, 2, Len(text) - 1)
             text_b64 == pad_to_four(replace_comma(text_mb64))
             text_u16 == base64_decode(text_b64)
         IN  IF ~text_u16.ok THEN [ok |-> FALSE, str |-> <<>>]
             ELSE [ok |-> TRUE, str |-> UTF_16BE_decode(text_u16.bytes)]

\* cap.m0 is the whole match, cap.m1 the capture group.
expand(cap) ==
    IF cap.m1 = <<>> THEN [ok |-> TRUE, str |-> <<Amp>>]
    ELSE decode_utf7_part(cap.m0)

\* The leftmost match of &([^-]*)- at or after the 1-based position from:
\* the first '&' that has a '-' after it, up to the first such '-'.
find_at(s, from) ==
    LET starts == {i \in from..Len(s) : s[i] = Amp /\ \E j \in (i + 1)..Len(s) : s[j] = Dash}
        i0 == Min(starts)
        j0 == Min({j \in (i0 + 1)..Len(s) : s[j] = Dash})
    IN  IF starts = {} THEN [found |-> FALSE]
        ELSE [found |-> TRUE, start |-> i0, end |-> j0,
              m0 |-> SubSeq(s, i0, j0), m1 |-> SubSeq(s, i0 + 1, j0 - 1)]

match_end_short(m) == m.end - 1

\* Where replace_all resumes: the byte offset just past the match.
match_end(m) == m.end

\* ---------------------------------------------------------- state machine
VARIABLES
    pc,          \* "idle", "enc_loop", "enc_ret", "dec_loop", "done", "panic"
    input,       \* the argument of encode_utf7_imap, as scalar values
    text,        \* encode_utf7_imap: the text still to encode
    result,      \* encode_utf7_imap: the output so far
    tmp,         \* encode_utf7_imap: the last non-ASCII run taken
    shift,       \* what encode_modified_utf7 returned for tmp
    dtext,       \* the argument of decode_utf7_imap
    last_match,  \* replace_all: the offset up to which dtext is consumed
    dout,        \* replace_all: the output so far
    spans        \* the matches handed to expand, as [start, end]

vars == <<pc, input, text, result, tmp, shift, dtext, last_match, dout, spans>>

Init ==
    /\ pc = "idle"
    /\ input = <<>> /\ text = <<>> /\ result = <<>> /\ tmp = <<>> /\ shift = <<>>
    /\ dtext = <<>> /\ last_match = 0 /\ dout = <<>> /\ spans = <<>>

\* encode_utf7_imap(text): lines 25-27.
CallEncode ==
    /\ pc = "idle"
    /\ \E s \in UStrings :
         /\ input' = s
         /\ text' = EscapeAmp(Utf8(s))
    /\ result' = <<>>
    /\ pc' = "enc_loop"
    /\ UNCHANGED <<tmp, shift, dtext, last_match, dout, spans>>

\* One iteration of the while loop, lines 28-36.
EncodeIter ==
    /\ pc = "enc_loop"
    /\ text # <<>>
    /\ LET ascii == get_ascii(text)
           t1 == remove_ascii(text)
           run == IF t1 # <<>> THEN get_nonascii(t1) ELSE <<>>
           sh == IF t1 # <<>> THEN encode_modified_utf7(run) ELSE <<>>
           t2 == IF t1 # <<>> THEN remove_nonascii(t1) ELSE t1
           ok == /\ slice_ok(text, FirstNonAscii(text))
                 /\ t1 # <<>> => slice_ok(t1, FirstAscii(t1))
       IN  IF ok
           THEN /\ result' = result \o ascii \o sh
                /\ text' = t2
                /\ tmp' = run
                /\ shift' = sh
                /\ pc' = pc
           ELSE /\ pc' = "panic"
                /\ UNCHANGED <<result, text, tmp, shift>>
    /\ UNCHANGED <<input, dtext, last_match, dout, spans>>

\* The loop ends and result is returned, line 37.
EncodeReturn ==
    /\ pc = "enc_loop"
    /\ text = <<>>
    /\ pc' = "enc_ret"
    /\ UNCHANGED <<input, text, result, tmp, shift, dtext, last_match, dout, spans>>

\* decode_utf7_imap(encode_utf7_imap(s)), as fuzzy_dec_enc_check calls it.
CallDecodeEncoded ==
    /\ pc = "enc_ret"
    /\ dtext' = result
    /\ last_match' = 0 /\ dout' = <<>> /\ spans' = <<>>
    /\ pc' = "dec_loop"
    /\ UNCHANGED <<input, text, result, tmp, shift>>

\* decode_utf7_imap(text) on a text of the caller's.
CallDecode ==
    /\ pc = "idle"
    /\ \E t \in EncStrings : dtext' = t
    /\ last_match' = 0 /\ dout' = <<>> /\ spans' = <<>>
    /\ pc' = "dec_loop"
    /\ UNCHANGED <<input, text, result, tmp, shift>>

\* replace_all: the next match is expanded and appended after the text
\* that precedes it; a panic in expand ends the call.
DecodeMatch ==
    /\ pc = "dec_loop"
    /\ LET m == find_at(dtext, last_match + 1)
       IN  /\ m.found
           /\ spans' = Append(spans, [start |-> m.start, end |-> m.end])
           /\ IF expand(m).ok
              THEN /\ dout' = dout \o SubSeq(dtext, last_match + 1, m.start - 1)
                                   \o expand(m).str
                   /\ last_match' = match_end(m)
                   /\ pc' = pc
              ELSE /\ pc' = "panic"
                   /\ UNCHANGED <<dout, last_match>>
    /\ UNCHANGED <<input, text, result, tmp, shift, dtext>>

\* replace_all: no further match, the rest of the text is appended.
DecodeFinish ==
    /\ pc = "dec_loop"
    /\ ~find_at(dtext, last_match + 1).found
    /\ dout' = dout \o SubSeq(dtext, last_match + 1, Len(dtext))
    /\ pc' = "done"
    /\ UNCHANGED <<input, text, result, tmp, shift, dtext, last_match, spans>>

Next ==
    \/ CallEncode
    \/ EncodeIter
    \/ EncodeReturn
    \/ CallDecodeEncoded
    \/ CallDecode
    \/ DecodeMatch
    \/ DecodeFinish

Spec == Init /\ [][Next]_vars

\* ------------------------------------------------------------ properties
\* The modified base64 alphabet [A-Za-z0-9+,].
ModifiedAlphabet == (65..90) \cup (97..122) \cup (48..57) \cup {43, 44}

\* The standard base64 alphabet, by 6-bit value.
StdAlphabet ==
    <<65, 66, 67, 68, 69, 70, 71, 72, 73, 74, 75, 76, 77, 78, 79, 80,
      81, 82, 83, 84, 85, 86, 87, 88, 89, 90, 97, 98, 99, 100, 101, 102,
      103, 104, 105, 106, 107, 108, 109, 110, 111, 112, 113, 114, 115, 116,
      117, 118, 119, 120, 121, 122, 48, 49, 50, 51, 52, 53, 54, 55, 56, 57,
      43, 47>>

\* Bit i (0-based, most significant first) of a byte string, 0 past its end.
BitOf(bytes, i) ==
    IF i >= 8 * Len(bytes) THEN 0
    ELSE (bytes[(i \div 8) + 1] \div Pow2(7 - (i % 8))) % 2

\* The k-th group of six bits of a byte string.
Sextet(bytes, k) ==
    LET o == 6 * (k - 1)
    IN  (32 * BitOf(bytes, o)) + (16 * BitOf(bytes, o + 1)) + (8 * BitOf(bytes, o + 2))
        + (4 * BitOf(bytes, o + 3)) + (2 * BitOf(bytes, o + 4)) + BitOf(bytes, o + 5)

\* The UTF-16BE bytes of a scalar value, a surrogate pair above U+FFFF.
RefUtf16BE(c) ==
    IF c < 65536 THEN <<c \div 256, c % 256>>
    ELSE LET v == c - 65536
         IN  <<216 + (v \div 262144), (v \div 1024) % 256,
               220 + ((v % 1024) \div 256), v % 256>>

\* Unpadded base64 of the UTF-16BE bytes of cs, with ',' for '/'.
RefPayload(cs) ==
    LET bytes == Flatten([i \in 1..Len(cs) |-> RefUtf16BE(cs[i])])
        n == ((8 * Len(bytes)) + 5) \div 6
    IN  [k \in 1..n |->
            LET ch == StdAlphabet[Sextet(bytes, k) + 1]
            IN  IF ch = 47 THEN 44 ELSE ch]

\* A character encode copies to its output as it is.
PassThrough(c) == c < 128 /\ is_ascii_custom(c)

\* The maximal runs of cs of characters of one class, in order.
RECURSIVE RunsOf(_)
RunsOf(cs) ==
    IF cs = <<>> THEN <<>>
    ELSE LET other == {i \in 1..Len(cs) : PassThrough(cs[i]) # PassThrough(cs[1])}
             k == IF other = {} THEN Len(cs) ELSE Min(other) - 1
         IN  <<SubSeq(cs, 1, k)>> \o RunsOf(SubSeq(cs, k + 1, Len(cs)))

\* The positions of s where a shift sequence starts: an '&' not followed by '-'.
ShiftStarts(s) == {k \in 1..Len(s) : s[k] = 38 /\ (k = Len(s) \/ s[k + 1] # 45)}

\* The positions of s where an escape "&-" starts.
EscapeStarts(s) == {k \in 1..(Len(s) - 1) : s[k] = 38 /\ s[k + 1] = 45}

Payload(i) == SubSeq(dtext, spans[i].start + 1, spans[i].end - 1)

\* C1: decode_utf7_imap(encode_utf7_imap(s)) = s for every Unicode string s.
C1_RoundTrip ==
    (pc = "done" /\ dtext = result) => dout = Utf8(input)

\* C2: the shift sequence emitted for a non-empty transcoded run is '&',
\* the unpadded standard base64 of the run's UTF-16BE bytes with ',' for
\* '/', and '-'.
C2_ShiftSequence ==
    tmp # <<>> =>
        \E i, j \in 1..Len(input) :
            /\ i <= j
            /\ tmp = Utf8(SubSeq(input, i, j))
            /\ shift = <<38>> \o RefPayload(SubSeq(input, i, j)) \o <<45>>

C2_Witness ==
    /\ pc = "enc_ret"
    /\ input = <<65, 65534, 128512>>
    /\ shift = <<38, 44, 44, 55, 89, 80, 100, 52, 65, 45>>

\* C3: the output is, in input order, each maximal pass-through run as it
\* is (with '&' escaped) and one shift sequence for each maximal run of
\* other characters.
C3_OneShiftPerRun ==
    pc = "enc_ret" =>
        LET runs == RunsOf(input)
        IN  /\ result = Flatten([r \in 1..Len(runs) |->
                    IF PassThrough(runs[r][1]) THEN EscapeAmp(runs[r])
                    ELSE encode_modified_utf7(Utf8(runs[r]))])
            /\ Cardinality(ShiftStarts(result))
                 = Cardinality({r \in 1..Len(runs) : ~PassThrough(runs[r][1])})

C3_Witness ==
    /\ pc = "enc_ret"
    /\ input = <<65, 233, 10>>
    /\ result = <<65, 38, 65, 79, 107, 65, 67, 103, 45>>

\* C4: a payload that is not valid modified base64 (a character outside
\* the alphabet, or a length of 1 mod 4) makes decode report a failure: it
\* neither panics nor goes on to return text.
C4_MalformedReported ==
    \A i \in 1..Len(spans) :
        (Payload(i) # <<>>
         /\ (\A k \in 1..Len(Payload(i)) : Payload(i)[k] # 38)
         /\ (Len(Payload(i)) % 4 = 1
             \/ \E k \in 1..Len(Payload(i)) : Payload(i)[k] \notin ModifiedAlphabet))
        => pc \notin {"panic", "dec_loop", "done"}

\* C5: every character of the output of encode is in 0x20..0x7E, and no
\* input character outside that range is copied to the output.
C5_PrintableOutput ==
    pc = "enc_ret" => \A k \in 1..Len(result) : result[k] \in 32..126

\* C6: each '&' of the output is followed by '-' or starts a shift
\* sequence with a non-empty payload over [A-Za-z0-9+,], and each '&' of
\* the input is emitted as "&-".
C6_AmpFraming ==
    pc = "enc_ret" =>
        /\ \A k \in 1..Len(result) :
             result[k] = 38 =>
                /\ k < Len(result)
                /\ \/ result[k + 1] = 45
                   \/ \E j \in (k + 2)..Len(result) :
                        /\ result[j] = 45
                        /\ \A m \in (k + 1)..(j - 1) : result[m] \in ModifiedAlphabet
        /\ Cardinality(EscapeStarts(result))
             = Cardinality({i \in 1..Len(input) : input[i] = 38})

C6_Witness ==
    /\ pc = "enc_ret"
    /\ input = <<38, 233, 38>>
    /\ result = <<38, 45, 38, 65, 79, 107, 45, 38, 45>>

\* C7: encode never fails: a step of a running call is a loop iteration
\* that strictly shortens the non-empty text, or the return on the empty
\* text (so a call makes at most Len(text) iterations and then returns),
\* and the empty input gives the empty output.
C7_EncodeTotal ==
    [][/\ pc = "enc_loop" => pc' \in {"enc_loop", "enc_ret"}
       /\ (pc = "enc_loop" /\ text # <<>>) =>
             (pc' = "enc_loop" /\ Len(text') < Len(text))
       /\ (pc = "enc_loop" /\ text = <<>>) => pc' = "enc_ret"
       /\ (pc' = "enc_ret" /\ input' = <<>>) => result' = <<>>]_vars

C7_Witness ==
    /\ pc = "enc_ret"
    /\ Len(input) = 3
    /\ Cardinality(ShiftStarts(result)) = 2

\* The UTF-16BE code units of a byte string of even length.
RefUnits(bytes) ==
    [i \in 1..(Len(bytes) \div 2) |-> (256 * bytes[(2 * i) - 1]) + bytes[2 * i]]

Unpaired(u) ==
    \E i \in 1..Len(u) :
        \/ u[i] \in 55296..56319 /\ (i = Len(u) \/ u[i + 1] \notin 56320..57343)
        \/ u[i] \in 56320..57343 /\ (i = 1 \/ u[i - 1] \notin 55296..56319)

\* C8: a payload whose bytes are odd in number or hold an unpaired
\* surrogate makes decode report a failure instead of returning text.
C8_NoReplacement ==
    \A i \in 1..Len(spans) :
        LET r == base64_decode(pad_to_four(replace_comma(Payload(i))))
        IN  (Payload(i) # <<>> /\ r.ok
             /\ (Len(r.bytes) % 2 = 1 \/ Unpaired(RefUnits(r.bytes))))
            => pc \notin {"dec_loop", "done"}

\* decode as one pass over the input: a span at the head is replaced and
\* the pass goes on after it, any other character is copied.
RECURSIVE SinglePass(_)
SinglePass(s) ==
    IF s = <<>> THEN <<>>
    ELSE IF s[1] = 38 /\ \E j \in 2..Len(s) : s[j] = 45
         THEN LET j == Min({k \in 2..Len(s) : s[k] = 45})
              IN  (IF j = 2 THEN <<38>> ELSE decode_utf7_part(SubSeq(s, 1, j)).str)
                  \o SinglePass(SubSeq(s, j + 1, Len(s)))
         ELSE <<s[1]>> \o SinglePass(Tail(s))

\* C9: the matched spans are disjoint and in input order, each is replaced
\* where it stands, and replaced text is not scanned again.
C9_SinglePass ==
    /\ \A i \in 1..(Len(spans) - 1) : spans[i].end < spans[i + 1].start
    /\ pc = "done" => dout = SinglePass(dtext)

C9_Witness ==
    /\ pc = "done"
    /\ dtext = <<38, 45, 65, 65, 65, 45>>
    /\ dout = <<38, 65, 65, 65, 45>>

\* C10: every span handed to expand is '&', characters other than '&' and
\* '-', then '-'; a span "&-" becomes '&'; a text without spans is
\* returned as it is.
C10_SpanGrammar ==
    /\ \A i \in 1..Len(spans) :
          /\ dtext[spans[i].start] = 38
          /\ dtext[spans[i].end] = 45
          /\ \A k \in 1..Len(Payload(i)) : Payload(i)[k] \notin {38, 45}
    /\ (pc = "done" /\ dtext = <<38, 45>>) => dout = <<38>>
    /\ (pc = "done" /\ spans = <<>>) => dout = dtext

====
